---------------------------- MODULE Spec2Model ----------------------------
(***************************************************************************)
(* A model of the two binaries of data-plotter:                            *)
(*   "parser"  = src/parse/rust-data-parser/src/main.rs                    *)
(*   "plotter" = src/src/main.rs                                           *)
(* Both walk a benchmark result tree, pair every `measurement*` entry with *)
(* an index parsed from a directory name, sort by index, decode each file  *)
(* as CBOR and collect estimates.median.point_estimate.  The parser does   *)
(* this for two (root, output file) pairs and writes a text artifact per   *)
(* root; the plotter does it for one root and prints the vector.           *)
(*                                                                         *)
(* Strings are sequences of one-character strings.  An f64 is modelled in  *)
(* fixed point, as a whole number of tenths (255 is 25.5).                 *)
(***************************************************************************)
EXTENDS Integers, Sequences, FiniteSets, TLC

(***************************************************************************)
(* Bounds of the model.                                                    *)
(***************************************************************************)
\* Entries one WalkDir iteration yields at most (readable or not).
MaxEntries == 2

(***************************************************************************)
(* Program constants.                                                      *)
(***************************************************************************)
\* `paths` / `output_files` of the parser hold two elements.
NumDatasets == 2
\* The plotter's main calls decode_cbor on one path.
PlotterDatasets == 1
\* split("/").nth(2): the zero-based segment the plotter takes the index from.
NthSegment == 2
\* i32 range, for parse::<i32>().
I32Max == 2147483647
I32Min == (0 - I32Max) - 1

Progs == {"parser", "plotter"}

NDatasets(p) == IF p = "parser" THEN NumDatasets ELSE PlotterDatasets

(***************************************************************************)
(* Names that occur in the modelled trees.                                 *)
(***************************************************************************)
MEASUREMENT == <<"m","e","a","s","u","r","e","m","e","n","t">>
TH == <<"t","h">>

N_1th       == <<"1","t","h">>
N_1th3th    == <<"1","t","h","3","t","h">>
N_2th       == <<"2","t","h"," ","x">>
N_neg1th    == <<"-","1","t","h">>
N_12        == <<"1","2">>
N_abc       == <<"a","b","c">>
N_data      == <<"d","a","t","a">>
F_meas      == MEASUREMENT
F_meas_s    == MEASUREMENT \o <<"s">>
F_Meas      == <<"M">> \o Tail(MEASUREMENT)
F_measure   == <<"m","e","a","s","u","r","e">>
F_xmeas     == <<"x">> \o MEASUREMENT
\* A byte that is not valid UTF-8 (0xFF), and two names holding it.
BadByte     == "0xFF"
F_notes_bad == <<"n","o","t","e","s","-",BadByte>>
F_meas_bad  == MEASUREMENT \o <<BadByte>>

\* The root handed to decode_cbor, split on "/".  The result-directory names
\* are never inspected character by character, so each is kept as one token.
RootSegs(p, d) ==
    IF p = "plotter"
    THEN << <<"omc-regs-fib-hyperkzg-benchmark-results">>, N_data >>
    ELSE IF d = 1
         THEN << <<".">> \o <<".">>,
                 <<"regs-r1cs-fib-hyperkzg-benchmark-results">>, N_data >>
         ELSE << <<".">> \o <<".">>,
                 <<"regs-omc-fib-hyperkzg-benchmark-results">>, N_data >>

\* Entries a walk can yield, relative to the root (each a sequence of names).
RelPaths ==
    { << N_1th, F_meas >>,            \* index 1
      << N_1th3th, F_meas >>,         \* index 1 again (first "th" counts)
      << N_2th, F_meas_s >>,          \* index 2, name longer than the prefix
      << N_1th, N_2th, F_meas >>,     \* nested: parent "2th x", ancestor "1th"
      << N_12, F_meas >>,             \* parent without "th" that is a number
      << N_neg1th, F_meas >>,         \* negative index
      << N_abc, F_meas >>,            \* parent that is no number
      << N_2th, N_abc, F_meas >>,     \* nested below a well-named ancestor
      << F_meas >>,                   \* directly under the root
      << N_abc, F_Meas >>,            \* wrong case
      << N_1th, F_measure >>,         \* shorter than the prefix
      << N_abc, F_xmeas >>,           \* prefix not at the start
      << N_1th, F_notes_bad >>,       \* no UTF-8, no measurement name
      << N_1th, F_meas_bad >>,        \* no UTF-8, a measurement name
      << N_abc >>,                    \* a directory
      << >> }                         \* the root itself

(***************************************************************************)
(* str::starts_with, str::split("th").next(), str::parse::<i32>()          *)
(***************************************************************************)
\* name.starts_with(prefix)
StartsWith(name, prefix) ==
    /\ Len(name) >= Len(prefix)
    /\ \A i \in 1..Len(prefix) : name[i] = prefix[i]

\* Positions at which `pat` occurs in `s`.
Occurrences(s, pat) ==
    { i \in 1..(Len(s) - Len(pat) + 1) :
        \A j \in 1..Len(pat) : s[i + j - 1] = pat[j] }

\* s.split(pat).next().unwrap(): the part before the first occurrence of
\* pat, the whole string when there is none.
SplitFirst(s, pat) ==
    LET occ == Occurrences(s, pat)
    IN  IF occ = {} THEN s
        ELSE LET first == CHOOSE i \in occ : \A j \in occ : i <= j
             IN  SubSeq(s, 1, first - 1)

Digits == <<"0","1","2","3","4","5","6","7","8","9">>
IsDigit(c) == \E k \in 1..10 : Digits[k] = c
DigitVal(c) == (CHOOSE k \in 1..10 : Digits[k] = c) - 1

\* The digit loop of from_str: checked_mul(10) then checked_add(digit) for a
\* positive number, checked_sub(digit) for a negative one; None on overflow.
RECURSIVE Accumulate(_, _)
Accumulate(body, negative) ==
    IF Len(body) = 0 THEN [ok |-> TRUE, val |-> 0]
    ELSE LET r == Accumulate(SubSeq(body, 1, Len(body) - 1), negative)
             d == DigitVal(body[Len(body)])
         IN  IF ~r.ok THEN r
             ELSE IF negative
             THEN IF r.val >= (I32Min + d + 9) \div 10
                  THEN [ok |-> TRUE, val |-> r.val * 10 - d]
                  ELSE [ok |-> FALSE, val |-> 0]
             ELSE IF r.val <= (I32Max - d) \div 10
                  THEN [ok |-> TRUE, val |-> r.val * 10 + d]
                  ELSE [ok |-> FALSE, val |-> 0]

\* <i32 as FromStr>::from_str: an optional sign, then at least one digit,
\* nothing else, and the value in range.
ParseI32(s) ==
    LET signed == Len(s) > 0 /\ s[1] \in {"+", "-"}
        body   == IF signed THEN Tail(s) ELSE s
        wellformed == Len(body) > 0 /\ \A i \in 1..Len(body) : IsDigit(body[i])
    IN  IF wellformed
        THEN Accumulate(body, signed /\ s[1] = "-")
        ELSE [ok |-> FALSE, val |-> 0]

(***************************************************************************)
(* Locating: the candidate test and the index of a candidate.              *)
(***************************************************************************)
\* Whether path.to_str() is Some: every byte of the path is valid UTF-8.
ToStrOk(full) ==
    \A i \in 1..Len(full) : \A j \in 1..Len(full[i]) : full[i][j] # BadByte

\* A faulty candidate test: `measurement` anywhere in the final segment.
IsCandidateAnywhere(full) == Occurrences(full[Len(full)], MEASUREMENT) # {}

\* path.to_str().unwrap().split("/").last().unwrap().starts_with("measurement")
IsCandidate(full) == StartsWith(full[Len(full)], MEASUREMENT)

\* parser: path.parent().unwrap().file_name().unwrap()
ParentName(full) == full[Len(full) - 1]

\* plotter: path.to_str().unwrap().split("/").nth(2).unwrap()
NthName(full) == full[NthSegment + 1]

\* The name each program parses the index from.
IndexName(p, full) == IF p = "parser" THEN ParentName(full) ELSE NthName(full)

\* ....split("th").next().unwrap().parse::<i32>()   (before the unwrap)
IndexOf(p, full) == ParseI32(SplitFirst(IndexName(p, full), TH))


(***************************************************************************)
(* serde_cbor::Value, as far as the programs look into it.                 *)
(***************************************************************************)
NoFields == [k \in {} |-> 0]

VFloat(x)   == [tag |-> "Float",   num |-> x, map |-> NoFields]
VInteger(x) == [tag |-> "Integer", num |-> x, map |-> NoFields]
VText       == [tag |-> "Text",    num |-> 0, map |-> NoFields]
VMap(f)     == [tag |-> "Map",     num |-> 0, map |-> f]

\* f64 values, in tenths: 10.0 and 25.5.
Floats == {100, 255}

\* {"estimates": {"median": {"point_estimate": leaf}}}
Estimate(leaf) ==
    VMap("estimates" :> VMap("median" :> VMap("point_estimate" :> leaf)))

\* Documents a measurement file can decode to.
Docs ==
    { Estimate(VFloat(x)) : x \in Floats } \cup
    { Estimate(VInteger(7)),                               \* integer leaf
      VMap("estimates" :> VMap("median" :> VMap(NoFields))), \* no point_estimate
      VMap("estimates" :> VMap("median" :> VFloat(100))),  \* median no map
      VMap("estimates" :> VMap(NoFields)),                 \* no median
      VMap("estimates" :> VText),                          \* estimates no map
      VMap("mean" :> VMap("median" :> VMap("point_estimate" :> VFloat(100)))),
      VFloat(100) }                                        \* top level no map

\* What opening and reading one located file can give.
FileStates ==
    { [kind |-> "open_error", doc |-> VText],      \* File::open(..)? fails
      [kind |-> "decode_error", doc |-> VText] }   \* from_reader(..)? fails
    \cup { [kind |-> "doc", doc |-> d] : d \in Docs }

\* map.get(&Value::Text(key)) matched against Some(Value::Map(_))
GetMap(v, key) ==
    IF key \in DOMAIN v.map /\ v.map[key].tag = "Map"
    THEN [some |-> TRUE, v |-> v.map[key]]
    ELSE [some |-> FALSE, v |-> VText]

\* A faulty navigation: any numeric leaf is taken, an Integer coerced.
NavigateAnyNumber(value) ==
    IF value.tag = "Map" THEN
        LET estimates == GetMap(value, "estimates") IN
        IF estimates.some THEN
            LET median == GetMap(estimates.v, "median") IN
            IF median.some THEN
                IF /\ "point_estimate" \in DOMAIN median.v.map
                   /\ median.v.map["point_estimate"].tag \in {"Float", "Integer"}
                THEN [some |-> TRUE, val |-> median.v.map["point_estimate"].num]
                ELSE [some |-> FALSE, val |-> 0]
            ELSE [some |-> FALSE, val |-> 0]
        ELSE [some |-> FALSE, val |-> 0]
    ELSE [some |-> FALSE, val |-> 0]

\* The nested `if let` chain of decode_cbor: Some(point_estimate) or None.
Navigate(value) ==
    IF value.tag = "Map" THEN
        LET estimates == GetMap(value, "estimates") IN
        IF estimates.some THEN
            LET median == GetMap(estimates.v, "median") IN
            IF median.some THEN
                IF /\ "point_estimate" \in DOMAIN median.v.map
                   /\ median.v.map["point_estimate"].tag = "Float"
                THEN [some |-> TRUE, val |-> median.v.map["point_estimate"].num]
                ELSE [some |-> FALSE, val |-> 0]
            ELSE [some |-> FALSE, val |-> 0]
        ELSE [some |-> FALSE, val |-> 0]
    ELSE [some |-> FALSE, val |-> 0]

\* number_time after the loop body ran on one decoded value.
PushEstimate(number_time, number, value) ==
    LET r == Navigate(value)
    IN  IF r.some THEN Append(number_time, <<number, r.val>>) ELSE number_time

(***************************************************************************)
(* number_path.sort_by_key(|&(num, _)| num): a stable sort.                *)
(***************************************************************************)
\* x placed behind every element whose key is not greater.
InsertByKey(sorted, x) ==
    LET before == { i \in 1..Len(sorted) : sorted[i].number <= x.number }
        k == Cardinality(before)
    IN  SubSeq(sorted, 1, k) \o <<x>> \o SubSeq(sorted, k + 1, Len(sorted))

\* A faulty sort: number_path left in discovery order.
SortByKeyOmitted(s) == s

RECURSIVE SortByKey(_)
SortByKey(s) ==
    IF Len(s) = 0 THEN <<>>
    ELSE InsertByKey(SortByKey(SubSeq(s, 1, Len(s) - 1)), s[Len(s)])

(***************************************************************************)
(* Formatting.                                                             *)
(***************************************************************************)
RECURSIVE NatDigits(_)
NatDigits(n) ==
    IF n < 10 THEN <<Digits[n + 1]>>
    ELSE NatDigits(n \div 10) \o <<Digits[(n % 10) + 1]>>

Abs(n) == IF n < 0 THEN 0 - n ELSE n
Sign(n) == IF n < 0 THEN <<"-">> ELSE <<>>

\* format!("{}", number) for an i32
DisplayI32(n) == Sign(n) \o NatDigits(Abs(n))

\* format!("{}", time) for an f64: no fractional part is printed for a
\* whole number.
DisplayF64(t) ==
    Sign(t) \o NatDigits(Abs(t) \div 10)
            \o (IF Abs(t) % 10 = 0 THEN <<>> ELSE <<".", Digits[(Abs(t) % 10) + 1]>>)

\* format!("{:?}", time) for an f64: always with a fractional part.
DebugF64(t) ==
    Sign(t) \o NatDigits(Abs(t) \div 10) \o <<".", Digits[(Abs(t) % 10) + 1]>>

\* format!("({}, {})", number, time)
FormatPair(pair) ==
    <<"(">> \o DisplayI32(pair[1]) \o <<",", " ">> \o DisplayF64(pair[2]) \o <<")">>

\* A faulty separator: also pushed before the first pair.
SeparatorAlways(i) == IF i >= 0 THEN <<",", " ">> ELSE <<>>

\* `if i > 0 { content.push_str(", ") }`, i the zero-based position
Separator(i) == IF i > 0 THEN <<",", " ">> ELSE <<>>

\* The body of `for (i, (number, time)) in fib_time.iter().enumerate()`,
\* from the one-based position k on.
RECURSIVE PushPairs(_, _, _)
PushPairs(content, fib_time, k) ==
    IF k > Len(fib_time) THEN content
    ELSE PushPairs(content \o Separator(k - 1) \o FormatPair(fib_time[k]),
                   fib_time, k + 1)

\* The String main builds from Ok(fib_time).
Serialize(fib_time) == PushPairs(<<"[">>, fib_time, 1) \o <<"]">>

\* println!("{:?}", fib_time) of the plotter: Debug of Vec<(i32, f64)>.
RECURSIVE DebugPairs(_, _)
DebugPairs(fib_time, k) ==
    IF k > Len(fib_time) THEN <<>>
    ELSE (IF k > 1 THEN <<",", " ">> ELSE <<>>)
         \o <<"(">> \o DisplayI32(fib_time[k][1]) \o <<",", " ">>
         \o DebugF64(fib_time[k][2]) \o <<")">>
         \o DebugPairs(fib_time, k + 1)

DebugVec(fib_time) == <<"[">> \o DebugPairs(fib_time, 1) \o <<"]">>

(***************************************************************************)
(* The state.                                                              *)
(***************************************************************************)
VARIABLES
    prog,         \* which binary runs: "parser" or "plotter"
    pc,           \* where main is: "loop", "walk", "decode", or an end:
                  \*   "done" (main returned), "panicked" (an unwrap failed),
                  \*   "exit_err" (main returned Err through `?`)
    di,           \* one-based position in `paths` of the current dataset
    walked,       \* entries the current walk has come across
    entry,        \* the entry the loop body ran on last (<<>>: none)
    located,      \* the [number, path] records pushed by the current walk
    number_path,  \* decode_cbor's number_path: [number, path] records
    next,         \* one-based position of the pair the decode loop takes next
    decoded,      \* what opening and reading each pair taken so far gave
    number_time,  \* decode_cbor's number_time: <<number, time>> pairs
    content,      \* the text main built last (written or printed)
    status,       \* per dataset: "pending", "error" (main's Err arm ran),
                  \*   "written" (parser), "printed" (plotter),
                  \*   "write_failed", and where a panic ended the run:
                  \*   "panic_to_str", "panic_parse", "panic_eprintln",
                  \*   "panic_println" ("written" stays when the println!
                  \*   after a successful write panics)
    reported,     \* per dataset: the error main's Err arm printed ("": none)
    writes        \* per dataset: successful std::fs::write calls

vars == <<prog, pc, di, walked, entry, located, number_path, next, decoded,
          number_time, content, status, reported, writes>>

Datasets == 1..NumDatasets

Init ==
    /\ prog \in Progs
    /\ pc = "loop"
    /\ di = 1
    /\ walked = 0
    /\ entry = <<>>
    /\ located = {}
    /\ number_path = <<>>
    /\ next = 1
    /\ decoded = <<>>
    /\ number_time = <<>>
    /\ content = <<>>
    /\ status = [d \in Datasets |-> "pending"]
    /\ reported = [d \in Datasets |-> ""]
    /\ writes = [d \in Datasets |-> 0]

Paths(s) == { s[i].path : i \in 1..Len(s) }

(***************************************************************************)
(* main: the loop over the (path, output_file) pairs.                      *)
(***************************************************************************)
\* The loop takes the next pair and calls decode_cbor, which starts with an
\* empty number_path.
StartDataset ==
    /\ pc = "loop"
    /\ di <= NDatasets(prog)
    /\ pc' = "walk"
    /\ walked' = 0
    /\ entry' = <<>>
    /\ located' = {}
    /\ number_path' = <<>>
    /\ next' = 1
    /\ decoded' = <<>>
    /\ number_time' = <<>>
    /\ content' = <<>>
    /\ UNCHANGED <<prog, di, status, reported, writes>>

\* No pair is left: main returns.
Finish ==
    /\ pc = "loop"
    /\ di > NDatasets(prog)
    /\ pc' = "done"
    /\ UNCHANGED <<prog, di, walked, entry, located, number_path, next,
                   decoded, number_time, content, status, reported, writes>>

(***************************************************************************)
(* decode_cbor: the walk.                                                  *)
(***************************************************************************)
\* number_path after the loop body ran on one readable entry without a
\* panic.
WalkPush(np, p, full) ==
    IF IsCandidate(full)
    THEN Append(np, [number |-> IndexOf(p, full).val, path |-> full])
    ELSE np

\* Whether the loop body panics on this entry, and on which unwrap:
\* path.to_str().unwrap() of the candidate test, which runs on every entry,
\* or parse::<i32>().unwrap() of a candidate.  "": no panic.
WalkPanic(p, full) ==
    IF ~ToStrOk(full) THEN "panic_to_str"
    ELSE IF IsCandidate(full) /\ ~IndexOf(p, full).ok THEN "panic_parse"
    ELSE ""

WalkPanics(p, full) == WalkPanic(p, full) # ""

\* One iteration of `for entry in WalkDir::new(path)...filter_map(|e| e.ok())`:
\* the walk comes across an entry; an unreadable one is dropped by the
\* filter and the loop body does not run on it.
WalkEntry ==
    /\ pc = "walk"
    /\ walked < MaxEntries
    /\ \E rel \in RelPaths, readable \in BOOLEAN :
         LET full == RootSegs(prog, di) \o rel IN
         /\ full \notin Paths(number_path)
         /\ walked' = walked + 1
         /\ IF ~readable
            THEN /\ entry' = <<>>
                 /\ number_path' = number_path
                 /\ UNCHANGED <<pc, status>>
            ELSE IF WalkPanics(prog, full)
            THEN /\ entry' = full
                 /\ number_path' = number_path
                 /\ pc' = "panicked"
                 /\ status' = [status EXCEPT ![di] = WalkPanic(prog, full)]
            ELSE /\ entry' = full
                 /\ number_path' = WalkPush(number_path, prog, full)
                 /\ UNCHANGED <<pc, status>>
         /\ located' = located \cup
                { number_path'[i] : i \in (Len(number_path) + 1)..Len(number_path') }
    /\ UNCHANGED <<prog, di, next, decoded, number_time, content, reported,
                   writes>>

\* The walk is over: number_path.sort_by_key(..), then number_time is
\* created empty and the decode loop starts.
WalkDone ==
    /\ pc = "walk"
    /\ number_path' = SortByKey(number_path)
    /\ number_time' = <<>>
    /\ next' = 1
    /\ decoded' = <<>>
    /\ entry' = <<>>
    /\ pc' = "decode"
    /\ UNCHANGED <<prog, di, walked, located, content, status, reported,
                   writes>>

(***************************************************************************)
(* decode_cbor: the decode loop, and main's match on its result.           *)
(***************************************************************************)
\* A faulty propagation: a decode failure is swallowed, only a failed open
\* returns early.
ReturnsErrOpenOnly(file) == file.kind = "open_error"

\* Whether File::open(..)? or serde_cbor::from_reader(..)? returns early.
ReturnsErr(file) == file.kind \in {"open_error", "decode_error"}

\* Where main is after its `Err(e) => eprintln!("Error: {}", e)` arm: back
\* in the loop when stderr took the line; eprintln! panics when it did not.
AfterErr(stderr_ok) == IF stderr_ok THEN "loop" ELSE "panicked"

\* One iteration of `for pair in number_path`.  On an early return main's
\* Err arm prints the error and the loop goes on to the next pair, unless
\* the print itself panics.
DecodeFile ==
    /\ pc = "decode"
    /\ next <= Len(number_path)
    /\ \E file \in FileStates :
         /\ decoded' = Append(decoded, file)
         /\ IF ReturnsErr(file)
            THEN \E stderr_ok \in BOOLEAN :
                 /\ pc' = AfterErr(stderr_ok)
                 /\ IF stderr_ok
                    THEN /\ status' = [status EXCEPT ![di] = "error"]
                         /\ reported' = [reported EXCEPT ![di] = file.kind]
                         /\ di' = di + 1
                    ELSE /\ status' = [status EXCEPT ![di] = "panic_eprintln"]
                         /\ UNCHANGED <<reported, di>>
                 /\ UNCHANGED <<next, number_time>>
            ELSE /\ number_time' = PushEstimate(number_time,
                                       number_path[next].number, file.doc)
                 /\ next' = next + 1
                 /\ UNCHANGED <<status, reported, di, pc>>
    /\ UNCHANGED <<prog, walked, entry, located, number_path, content, writes>>

\* Where main is after a println!: back in the loop when stdout took the
\* line; println! panics when it did not.
AfterPrint(stdout_ok) == IF stdout_ok THEN "loop" ELSE "panicked"

\* Where main is after std::fs::write(output_file, content)? and the
\* println!("Results written to {}", ..) that follows a successful write.
AfterWrite(ok, stdout_ok) == IF ok THEN AfterPrint(stdout_ok) ELSE "exit_err"

\* decode_cbor returns Ok(number_time).  The parser builds the text and
\* writes the output file; a failed write returns from main through `?`,
\* a successful one is followed by a println!.  The plotter prints the
\* vector with {:?}.
ReturnOk ==
    /\ pc = "decode"
    /\ next > Len(number_path)
    /\ IF prog = "parser"
       THEN /\ content' = Serialize(number_time)
            /\ \E ok \in BOOLEAN, stdout_ok \in BOOLEAN :
                 /\ pc' = AfterWrite(ok, stdout_ok)
                 /\ IF ok
                    THEN /\ status' = [status EXCEPT ![di] = "written"]
                         /\ writes' = [writes EXCEPT ![di] = @ + 1]
                         /\ di' = IF stdout_ok THEN di + 1 ELSE di
                    ELSE /\ status' = [status EXCEPT ![di] = "write_failed"]
                         /\ UNCHANGED <<writes, di>>
       ELSE \E stdout_ok \in BOOLEAN :
            /\ pc' = AfterPrint(stdout_ok)
            /\ IF stdout_ok
               THEN /\ content' = DebugVec(number_time)
                    /\ status' = [status EXCEPT ![di] = "printed"]
                    /\ di' = di + 1
               ELSE /\ status' = [status EXCEPT ![di] = "panic_println"]
                    /\ UNCHANGED <<content, di>>
            /\ UNCHANGED writes
    /\ UNCHANGED <<prog, walked, entry, located, number_path, next, decoded,
                   number_time, reported>>

Next ==
    \/ StartDataset
    \/ Finish
    \/ WalkEntry
    \/ WalkDone
    \/ DecodeFile
    \/ ReturnOk

Spec == Init /\ [][Next]_vars

(***************************************************************************)
(* Vocabulary of the properties.                                           *)
(***************************************************************************)
RunEnded == pc \in {"done", "panicked", "exit_err"}

\* decode_cbor of the dataset `d` has just returned Ok: its locals are
\* still in the state.
ReturnedOk(d) ==
    \/ pc = "exit_err" /\ di = d
    \/ pc \in {"loop", "done"} /\ di = d + 1 /\ status[d] \in {"written", "printed"}
    \/ pc = "panicked" /\ di = d /\ status[d] \in {"written", "panic_println"}

\* decode_cbor of the dataset `d` has just returned Err.
ReturnedErr(d) ==
    \/ pc \in {"loop", "done"} /\ di = d + 1 /\ status[d] = "error"
    \/ pc = "panicked" /\ di = d /\ status[d] = "panic_eprintln"

\* The final path segment starts with `measurement`.
NamedMeasurement(full) ==
    /\ Len(full) > 0
    /\ Len(full[Len(full)]) >= 11
    /\ SubSeq(full[Len(full)], 1, 11) = MEASUREMENT

\* The document has a floating-point leaf at estimates.median.point_estimate.
HasPointEstimate(doc) ==
    /\ doc.tag = "Map"
    /\ "estimates" \in DOMAIN doc.map
    /\ doc.map["estimates"].tag = "Map"
    /\ "median" \in DOMAIN doc.map["estimates"].map
    /\ doc.map["estimates"].map["median"].tag = "Map"
    /\ "point_estimate" \in DOMAIN doc.map["estimates"].map["median"].map
    /\ doc.map["estimates"].map["median"].map["point_estimate"].tag = "Float"

PointEstimate(doc) ==
    doc.map["estimates"].map["median"].map["point_estimate"].num

\* The points the first n files read contribute, in the order read.
RECURSIVE ExpectedPoints(_, _, _)
ExpectedPoints(np, reads, n) ==
    IF n = 0 THEN <<>>
    ELSE LET rest == ExpectedPoints(np, reads, n - 1)
         IN  IF reads[n].kind = "doc" /\ HasPointEstimate(reads[n].doc)
             THEN Append(rest, <<np[n].number, PointEstimate(reads[n].doc)>>)
             ELSE rest

\* The renderings joined by ", ".
RECURSIVE Joined(_)
Joined(points) ==
    IF Len(points) = 0 THEN <<>>
    ELSE IF Len(points) = 1 THEN FormatPair(points[1])
    ELSE FormatPair(points[1]) \o <<",", " ">> \o Joined(Tail(points))

\* The index the directory-name convention gives an entry: the integer
\* before the first "th" of its parent directory's name.
ConventionIndex(full) == ParseI32(SplitFirst(full[Len(full) - 1], TH))

\* The parent directory's name follows the convention `<integer>th...`.
WellNamed(full) ==
    /\ Occurrences(full[Len(full) - 1], TH) # {}
    /\ ConventionIndex(full).ok

(***************************************************************************)
(* Properties.                                                             *)
(***************************************************************************)
Records(np) == { np[i] : i \in 1..Len(np) }

\* C1: whenever decode_cbor returns Ok, the returned pairs are in
\* non-decreasing order of index, the sorted number_path holds exactly the
\* located records, each once, and for every index the number of returned
\* pairs with that index equals the number of located files with that index
\* whose document has the point estimate: nothing is added, merged or lost.
C1_SortedAndCounted ==
    \A d \in Datasets : ReturnedOk(d) =>
        /\ \A i, j \in 1..Len(number_time) :
               i < j => number_time[i][1] <= number_time[j][1]
        /\ Len(number_path) = Cardinality(located)
        /\ Records(number_path) = located
        /\ Len(decoded) = Len(number_path)
        /\ \A n \in { r.number : r \in located } \cup
                    { number_time[k][1] : k \in 1..Len(number_time) } :
               Cardinality({ k \in 1..Len(number_time) : number_time[k][1] = n })
               = Cardinality({ i \in 1..Len(number_path) :
                                 /\ number_path[i].number = n
                                 /\ decoded[i].kind = "doc"
                                 /\ HasPointEstimate(decoded[i].doc) })

\* Ok was returned with two located files of the same index, both kept.
C1_Witness ==
    \E d \in Datasets :
        /\ ReturnedOk(d)
        /\ Len(number_time) = 2
        /\ number_time[1][1] = number_time[2][1]
        /\ number_path[1].path # number_path[2].path

\* C4 (as claimed): when a located file cannot be opened or does not
\* decode, decode_cbor returns Err at that file, main reports that error,
\* writes nothing for the dataset and goes on with the loop: the run never
\* ends at such a dataset while a later one is configured.
C4_DecodeErrorIsolated ==
    prog = "parser" =>
    /\ \A i \in 1..Len(decoded) :
           decoded[i].kind # "doc" =>
               /\ i = Len(decoded)
               /\ pc # "decode"
               /\ di > 1
               /\ status[di - 1] = "error"
               /\ reported[di - 1] = decoded[i].kind
    /\ \A d \in Datasets :
           status[d] = "error" =>
               /\ reported[d] \in {"open_error", "decode_error"}
               /\ writes[d] = 0
               /\ di > d
               /\ (RunEnded /\ d < NDatasets(prog)) => status[d + 1] # "pending"

\* C5: a file whose document decodes contributes exactly one pair (its
\* index, the leaf) if and only if the document is a map whose "estimates"
\* is a map whose "median" is a map whose "point_estimate" is a Float; in
\* every other case it contributes nothing, the loop goes on to the next
\* file, and the only errors decode_cbor returns are open and decode
\* failures.
C5_ExtractOnlyFloatPath ==
    (pc = "decode" \/ \E d \in Datasets : ReturnedOk(d) \/ ReturnedErr(d)) =>
        /\ number_time = ExpectedPoints(number_path, decoded, Len(decoded))
        /\ pc = "decode" => Len(decoded) = next - 1
        /\ \A d \in Datasets : ReturnedOk(d) =>
               /\ Len(decoded) = Len(number_path)
               /\ \A i \in 1..Len(decoded) : decoded[i].kind = "doc"
        /\ \A d \in Datasets : ReturnedErr(d) =>
               /\ Len(decoded) >= 1
               /\ decoded[Len(decoded)].kind \in {"open_error", "decode_error"}

\* Ok was returned after an integer leaf was dropped and the next file,
\* with a float leaf, was still extracted.
C5_Witness ==
    \E d \in Datasets :
        /\ ReturnedOk(d)
        /\ Len(decoded) = 2
        /\ decoded[1].doc = Estimate(VInteger(7))
        /\ HasPointEstimate(decoded[2].doc)
        /\ number_time = << <<number_path[2].number, PointEstimate(decoded[2].doc)>> >>

\* C7: an entry whose final path segment does not start with `measurement`
\* is never a candidate: the loop body neither pushes it nor parses an index
\* for it, so it causes no index-parse failure, and every located record,
\* every file opened and every returned pair belongs to an entry named
\* `measurement...`.  (The loop body can still panic on such an entry when
\* its path is not UTF-8: that is the to_str unwrap, not an index parse.)
C7_OnlyMeasurementEntries ==
    /\ \A r \in located \cup Records(number_path) : NamedMeasurement(r.path)
    /\ (entry # <<>> /\ ~NamedMeasurement(entry)) =>
           /\ status[di] # "panic_parse"
           /\ entry \notin Paths(number_path)
           /\ pc = "panicked" =>
                  /\ status[di] = "panic_to_str"
                  /\ \E i \in 1..Len(entry) : \E j \in 1..Len(entry[i]) :
                         entry[i][j] = BadByte
    /\ Len(decoded) <= Len(number_path)
    /\ Len(number_time) <= Len(decoded)

\* The walk ran on an entry named `Measurement` (wrong case) inside the
\* directory `abc`, after a candidate had been located, and went on.
C7_Witness ==
    /\ pc = "walk"
    /\ entry = RootSegs(prog, di) \o << N_abc, F_Meas >>
    /\ Len(number_path) = 1

\* C8: the text built from a ResultSet is `[`, the renderings `(index,
\* time)` in order with `, ` between consecutive ones and nowhere else, and
\* `]`; for the empty ResultSet it is `[]`.
C8_ArtifactText ==
    \A d \in Datasets : (prog = "parser" /\ ReturnedOk(d)) =>
        /\ content = <<"[">> \o Joined(number_time) \o <<"]">>
        /\ Len(number_time) = 0 => content = <<"[", "]">>

\* An artifact with two pairs was written.
C8_Witness ==
    \E d \in Datasets :
        /\ prog = "parser"
        /\ ReturnedOk(d)
        /\ status[d] = "written"
        /\ Len(number_time) = 2

\* C10: an output file is written at most once, and only by a dataset all
\* of whose located files were opened and decoded; what is written is the
\* text of the complete ResultSet.  A dataset with a file that failed to
\* open or decode has nothing written.
C10_NoPartialArtifact ==
    \A d \in Datasets :
        /\ writes[d] <= 1
        /\ writes[d] = 1 <=> status[d] = "written"
        /\ (status[d] = "written" /\ ReturnedOk(d)) =>
               /\ Len(decoded) = Len(number_path)
               /\ \A i \in 1..Len(decoded) : decoded[i].kind = "doc"
               /\ content = <<"[">>
                      \o Joined(ExpectedPoints(number_path, decoded, Len(number_path)))
                      \o <<"]">>
        /\ ReturnedErr(d) => writes[d] = 0

\* The first file of a dataset yielded a point, a later one failed, and
\* nothing was written for the dataset.
C10_Witness ==
    /\ prog = "parser"
    /\ ReturnedErr(1)
    /\ Len(number_time) >= 1
    /\ Len(decoded) = 2
    /\ writes[1] = 0

\* C2 (as claimed): when the run of one dataset meets a measurement entry
\* whose parent directory name gives no index, every other configured
\* dataset is still processed by the end of the run.
C2_OthersStillProcessed ==
    ( /\ prog = "parser"
      /\ RunEnded
      /\ entry # <<>>
      /\ NamedMeasurement(entry)
      /\ ~ConventionIndex(entry).ok )
    => \A d \in Datasets \ {di} : status[d] # "pending"

\* C3 (as claimed): when writing the output file of one dataset fails, every
\* later configured dataset is still processed by the end of the run.
C3_WriteFailureIsolated ==
    (prog = "parser" /\ RunEnded) =>
        \A d \in Datasets : status[d] = "write_failed" =>
            \A e \in Datasets : e > d => status[e] # "pending"

\* C6 (as claimed): a measurement entry whose parent directory name has no
\* `th`, or no integer before the first `th`, is never assigned an index and
\* never skipped: the loop body fails on it.
C6_MalformedNameIsFatal ==
    /\ \A r \in Records(number_path) : WellNamed(r.path)
    /\ (entry # <<>> /\ NamedMeasurement(entry) /\ ~WellNamed(entry)) =>
           pc = "panicked"

\* C9 (as claimed): the index paired with a measurement entry is the integer
\* before the first `th` of the name of its immediate parent directory.
C9_IndexFromParent ==
    \A r \in Records(number_path) :
        /\ ConventionIndex(r.path).ok
        /\ r.number = ConventionIndex(r.path).val

=============================================================================
